---- MODULE Spec2Model ----
(***************************************************************************)
(* A model of advanced-vector/vector.h: RawMemory<T> (an owned block of    *)
(* uninitialized storage) and Vector<T> (a growable array built on it).    *)
(*                                                                         *)
(* The heap is a set of numbered blocks; a block is the sequence of its    *)
(* slots, each slot either Uninit (raw storage) or the value of the live   *)
(* T object constructed there.  Every constructor call of an element adds  *)
(* one to objects and every destructor call removes one, so objects is the *)
(* difference of a test type's construction and destruction counters.      *)
(* An operation takes the number f of its step that throws (0: none).      *)
(***************************************************************************)
EXTENDS Integers, Sequences, FiniteSets, TLC

\* ------------------------------------------------------------------ bounds
MaxCap == 4       \* largest capacity a program of one Vector gets (SpecOne)
PairCap == 2      \* largest capacity a program of two Vectors gets (Spec)
PairVal == 1      \* largest value a program of two Vectors stores (Spec)
MixCap == 1       \* largest capacity of a Vector next to RawMemory objects (SpecMixed)
MixRaw == 1       \* largest capacity of a RawMemory next to Vectors (SpecMixed)
NBlocks == 3      \* storage blocks the allocator can hand out at a time
MaxVal == 1       \* largest value a program of one Vector stores (SpecOne)
MaxFail == 1      \* failures (throws) injected along one run
NVec == 2         \* Vector objects of the program
NRaw == 2         \* RawMemory objects of the program (SpecRaw)

VecIds == 1..NVec
RawIds == 1..NRaw
Blocks == 1..NBlocks
Uninit == -1      \* a slot holding no constructed element
Default == 0      \* T(): the value-initialized element
MovedFrom == 0    \* what a move leaves behind in a type that gives its value away
nullptr == 0

\* The element types T: what the code asks of T (is_copy_constructible,
\* is_nothrow_move_constructible) and whether moving changes the source.
Types ==
    { [copyable |-> TRUE,  nothrowMove |-> TRUE,  moveClears |-> FALSE],
      [copyable |-> TRUE,  nothrowMove |-> TRUE,  moveClears |-> TRUE],
      [copyable |-> TRUE,  nothrowMove |-> FALSE, moveClears |-> TRUE],
      [copyable |-> FALSE, nothrowMove |-> TRUE,  moveClears |-> TRUE],
      [copyable |-> FALSE, nothrowMove |-> FALSE, moveClears |-> TRUE] }

\* What executing undefined behaviour does in a build: nothing visible, the
\* code runs on whatever is there (a destructor's body is executed and
\* counted, a loop walks off its block), or the process dies at once.
UBOutcomes == {"skip", "run", "crash"}

VARIABLES heap, raw, vec, objects, fails, crashed, tp, traced, last, rt

vars == <<heap, raw, vec, objects, fails, crashed, tp, traced, last, rt>>

\* ------------------------------------------------------------- the heap
\* A machine state M is [heap, objects, ub, wild]: ub counts the destructor
\* calls made on slots holding no live element, wild records a loop given
\* iterators that are no range; both are undefined behaviour.
Machine == [heap |-> heap, objects |-> objects, ub |-> 0, wild |-> FALSE]

\* F of the value of x, x being evaluated once.
With(x, F(_)) == CHOOSE y \in {F(v) : v \in {x}} : TRUE

IsFree(h, b) == h[b] = <<>>

HasFree(h) == \E b \in Blocks : IsFree(h, b)

FreeBlock(h) == CHOOSE b \in Blocks : IsFree(h, b) /\ \A c \in Blocks : IsFree(h, c) => b <= c

\* static T* Allocate(size_t n): operator new(n * sizeof(T)), or nullptr for 0.
AllocateBlock(n, h) == IF n # 0 THEN FreeBlock(h) ELSE nullptr

Allocate(M, n) ==
    IF n # 0
    THEN [M EXCEPT !.heap[FreeBlock(M.heap)] = [i \in 1..n |-> Uninit]]
    ELSE M

\* static void Deallocate(T* buf): operator delete(buf); no destructor runs.
Deallocate(M, buf) ==
    IF buf = nullptr THEN M ELSE [M EXCEPT !.heap[buf] = <<>>]

IsLive(h, buf, i) ==
    /\ buf # nullptr
    /\ i >= 0 /\ i < Len(h[buf])
    /\ h[buf][i + 1] # Uninit

\* ------------------------------------------------------------ RawMemory
NoRaw == [live |-> FALSE, buffer_ |-> nullptr, capacity_ |-> 0]
NoVec == [live |-> FALSE, buffer_ |-> nullptr, capacity_ |-> 0, size_ |-> 0]
\* last: the operation that produced the state, the object id it was called
\* on, its first argument a (a size, a capacity, a position, another object)
\* and whether it returned (ok) or threw.  A run keeps this history, and rt,
\* when traced.
NoLast == [op |-> "none", id |-> 0, a |-> 0, ok |-> TRUE]
Did(op, id, a, ok) ==
    IF traced THEN [op |-> op, id |-> id, a |-> a, ok |-> ok] ELSE NoLast
\* rt: the last two operations seen as a round trip: after a successful
\* Emplace of val at pos on Vector id, "open" with the sequence it started
\* from and the index ret its returned iterator points at; after a successful
\* Erase at that pos right after it, "closed".
NoTrip == [state |-> "none", id |-> 0, pos |-> 0, val |-> 0, ret |-> -1, from |-> <<>>]

\* No object exists yet; the program is one over some element type T.
Start(t) ==
    /\ heap = [b \in Blocks |-> <<>>]
    /\ raw = [r \in RawIds |-> NoRaw]
    /\ vec = [v \in VecIds |-> NoVec]
    /\ objects = 0
    /\ fails = 0
    /\ crashed = FALSE
    /\ tp \in Types
    /\ traced = t
    /\ last = NoLast
    /\ rt = NoTrip

Init == Start(TRUE)
InitUntraced == Start(FALSE)

\* explicit RawMemory(size_t capacity); f = 1: operator new throws bad_alloc
\* and the object never exists.
RawCtor(r, capacity, f) ==
    /\ ~crashed /\ ~raw[r].live
    /\ capacity = 0 \/ HasFree(heap)
    /\ f = 0 \/ (capacity # 0 /\ fails < MaxFail)
    /\ IF f = 0
       THEN /\ heap' = Allocate(Machine, capacity).heap
            /\ raw' = [raw EXCEPT ![r] = [live |-> TRUE,
                           buffer_ |-> AllocateBlock(capacity, heap),
                           capacity_ |-> capacity]]
            /\ fails' = fails
       ELSE /\ UNCHANGED <<heap, raw>>
            /\ fails' = fails + 1
    /\ last' = Did("RawCtor", r, capacity, f = 0)
    /\ UNCHANGED <<vec, objects, crashed, tp, traced, rt>>

\* RawMemory(RawMemory&& other)
RawMoveCtor(r, other) ==
    /\ ~crashed /\ ~raw[r].live /\ raw[other].live
    /\ raw' = [raw EXCEPT ![r] = [live |-> TRUE,
                                   buffer_ |-> raw[other].buffer_,
                                   capacity_ |-> raw[other].capacity_],
                           ![other] = [@ EXCEPT !.buffer_ = nullptr, !.capacity_ = 0]]
    /\ last' = Did("RawMoveCtor", r, other, TRUE)
    /\ UNCHANGED <<heap, vec, objects, fails, crashed, tp, traced, rt>>

\* RawMemory& operator=(RawMemory&& other) noexcept
RawMoveAssign(r, other) ==
    /\ ~crashed /\ raw[r].live /\ raw[other].live
    /\ raw' = IF r # other
              THEN [raw EXCEPT ![r] = [@ EXCEPT !.buffer_ = raw[other].buffer_,
                                                 !.capacity_ = raw[other].capacity_],
                                ![other] = [@ EXCEPT !.buffer_ = nullptr, !.capacity_ = 0]]
              ELSE raw
    /\ last' = Did("RawMoveAssign", r, other, TRUE)
    /\ UNCHANGED <<heap, vec, objects, fails, crashed, tp, traced, rt>>

\* void Swap(RawMemory& other) noexcept
RawSwap(r, other) ==
    /\ ~crashed /\ raw[r].live /\ raw[other].live
    /\ raw' = [raw EXCEPT ![r] = raw[other], ![other] = raw[r]]
    /\ last' = Did("RawSwap", r, other, TRUE)
    /\ UNCHANGED <<heap, vec, objects, fails, crashed, tp, traced, rt>>

\* ~RawMemory()
RawDtor(r) ==
    /\ ~crashed /\ raw[r].live
    /\ heap' = Deallocate(Machine, raw[r].buffer_).heap
    /\ raw' = [raw EXCEPT ![r] = NoRaw]
    /\ last' = Did("RawDtor", r, 0, TRUE)
    /\ UNCHANGED <<vec, objects, fails, crashed, tp, traced, rt>>

\* ------------------------------------------- elements in raw storage
\* if constexpr (!is_copy_constructible_v<T> || is_nothrow_move_constructible_v<T>)
UseMove == ~tp.copyable \/ tp.nothrowMove

\* The value a moved-from element is left with.
Moved(x) == IF tp.moveClears THEN MovedFrom ELSE x

\* T's move constructor and move assignment may throw.
MoveThrows == ~tp.nothrowMove

\* The steps of transferring n elements to new storage that may throw: a copy
\* always may, a move only when T's move constructor is not noexcept.
XferSteps(n) == IF tp.nothrowMove THEN 0 ELSE n

Max(a, b) == IF a >= b THEN a ELSE b
Min(a, b) == IF a <= b THEN a ELSE b

\* new (buf + i) T(x): whatever the slot held is overwritten, not destroyed.
ConstructAt(M, buf, i, x) ==
    [M EXCEPT !.heap[buf][i + 1] = x, !.objects = @ + 1]

\* std::destroy_at(buf + i).  On a slot with no live element (raw storage, or
\* one past the end of the block) the call is undefined.
destroy_at(M0, buf, i) ==
    With(M0, LAMBDA M :
        IF IsLive(M.heap, buf, i)
        THEN [M EXCEPT !.heap[buf][i + 1] = Uninit, !.objects = @ - 1]
        ELSE [M EXCEPT !.ub = @ + 1])

RECURSIVE destroy_n(_, _, _, _)
\* std::destroy_n(buf + i, n)
destroy_n(M, buf, i, n) ==
    IF n <= 0 THEN M
    ELSE destroy_n(destroy_at(M, buf, i), buf, i + 1, n - 1)

\* std::uninitialized_copy_n(src + si, n, dst + di); k # 0: the k-th copy
\* throws, and the library destroys the k-1 copies it made before rethrowing.
uninitialized_copy_n(M0, src, si, n, dst, di, k) ==
    With(M0, LAMBDA M :
        IF n <= 0 \/ k # 0 THEN M
        ELSE [M EXCEPT !.heap[dst] =
                           [j \in 1..Len(@) |->
                               IF j - 1 >= di /\ j - 1 < di + n
                               THEN M.heap[src][si + (j - 1 - di) + 1]
                               ELSE @[j]],
                       !.objects = @ + n])

\* std::uninitialized_move_n(src + si, n, dst + di); k # 0: the k-th move
\* throws: the k-1 elements built are destroyed, their sources stay moved-from.
uninitialized_move_n(M0, src, si, n, dst, di, k) ==
    With(M0, LAMBDA M :
        IF n <= 0 THEN M
        ELSE LET done == IF k = 0 THEN n ELSE k - 1
                 moved == [j \in 1..Len(M.heap[src]) |->
                              IF j - 1 >= si /\ j - 1 < si + done
                              THEN Moved(M.heap[src][j]) ELSE M.heap[src][j]]
                 built == [j \in 1..Len(M.heap[dst]) |->
                              IF j - 1 >= di /\ j - 1 < di + n
                              THEN M.heap[src][si + (j - 1 - di) + 1]
                              ELSE M.heap[dst][j]]
             IN IF k = 0
                THEN [M EXCEPT !.heap[src] = moved, !.heap[dst] = built,
                               !.objects = @ + n]
                ELSE [M EXCEPT !.heap[src] = moved])

\* A transfer that moves whatever the element type is.
TransferByMove(M, src, si, n, dst, di, k) ==
    uninitialized_move_n(M, src, si, n, dst, di, k)

\* The transfer of Reserve and of Emplace's growth path.
Transfer(M, src, si, n, dst, di, k) ==
    IF UseMove
    THEN uninitialized_move_n(M, src, si, n, dst, di, k)
    ELSE uninitialized_copy_n(M, src, si, n, dst, di, k)

\* std::uninitialized_value_construct_n(buf + i, n); k # 0: the k-th T()
\* throws and the library destroys the k-1 elements it built.
uninitialized_value_construct_n(M0, buf, i, n, k) ==
    With(M0, LAMBDA M :
        IF n <= 0 \/ k # 0 THEN M
        ELSE [M EXCEPT !.heap[buf] =
                           [j \in 1..Len(@) |->
                               IF j - 1 >= i /\ j - 1 < i + n THEN Default ELSE @[j]],
                       !.objects = @ + n])

\* buf[to] = std::move(buf[from])
MoveAssignElem(M0, buf, from, to) ==
    With(M0, LAMBDA M :
        [M EXCEPT !.heap[buf] = [@ EXCEPT ![to + 1] = M.heap[buf][from + 1],
                                          ![from + 1] = Moved(M.heap[buf][from + 1])]])

RECURSIVE move_backward_loop(_, _, _, _, _, _)
move_backward_loop(M, buf, first, lst, d_last, k) ==
    IF lst <= first \/ k = 1 THEN M
    ELSE move_backward_loop(MoveAssignElem(M, buf, lst - 1, d_last - 1),
                            buf, first, lst - 1, d_last - 1,
                            IF k = 0 THEN 0 ELSE k - 1)

\* std::move_backward(buf + first, buf + lst, buf + d_last); the k-th move
\* assignment throws.  first > lst is not a range and the call is undefined: a
\* loop counting lst - first does nothing, a loop running until the iterators
\* meet walks off the block.
move_backward(M, buf, first, lst, d_last, k) ==
    IF first > lst
    THEN [M EXCEPT !.wild = TRUE]
    ELSE move_backward_loop(M, buf, first, lst, d_last, k)

RECURSIVE std_move(_, _, _, _, _, _)
\* std::move(buf + first, buf + lst, buf + d_first); the k-th move assignment throws.
std_move(M, buf, first, lst, d_first, k) ==
    IF first >= lst \/ k = 1 THEN M
    ELSE std_move(MoveAssignElem(M, buf, first, d_first),
                  buf, first + 1, lst, d_first + 1,
                  IF k = 0 THEN 0 ELSE k - 1)

\* ~T() of a local object, T tmp(...) having added it.
Local(M) == [M EXCEPT !.objects = @ + 1]
EndLocal(M) == [M EXCEPT !.objects = @ - 1]

\* --------------------------------------------------------------- Vector
\* The elements of V in order: slots [0, size_) of its buffer.
Elems(h, V) == IF V.size_ = 0 THEN <<>> ELSE SubSeq(h[V.buffer_], 1, V.size_)

\* What an operation leaves: the machine, the Vector and whether it threw;
\* steps is the number of its steps that could have thrown.
NoIter == -1
Result(M, V, thrown, steps) ==
    [m |-> M, v |-> V, thrown |-> thrown, steps |-> steps, ret |-> NoIter]

\* return data_ + distance: the index in data_ the returned iterator points at
Return(R, distance) == IF R.thrown THEN R ELSE [R EXCEPT !.ret = distance]

\* The body of Reserve's if: the elements go to a new buffer of the given
\* capacity.  f = 1: the allocation throws, f = 1 + k: the transfer of the
\* k-th element throws.
ReserveGrow(M, V, capacity, f) ==
    LET new_data == AllocateBlock(capacity, M.heap)
        k == IF f >= 2 /\ f - 1 <= XferSteps(V.size_) THEN f - 1 ELSE 0
        M1 == Allocate(M, capacity)
        M2 == Transfer(M1, V.buffer_, 0, V.size_, new_data, 0, k)
        M3 == destroy_n(M2, V.buffer_, 0, V.size_)
        n == 1 + XferSteps(V.size_)
    IN IF f = 1 THEN Result(M, V, TRUE, n)
       ELSE IF k # 0 THEN Result(Deallocate(M2, new_data), V, TRUE, n)
       ELSE Result(Deallocate(M3, V.buffer_),
                   [V EXCEPT !.buffer_ = new_data, !.capacity_ = capacity],
                   FALSE, n)

\* A Reserve that also reallocates when asked for the capacity it has.
ReserveAtLeast(M, V, capacity, f) ==
    IF capacity >= V.capacity_ /\ capacity > 0
    THEN ReserveGrow(M, V, capacity, f)
    ELSE Result(M, V, FALSE, 0)

\* void Reserve(size_t capacity)
ReserveOp(M, V, capacity, f) ==
    IF capacity > V.capacity_
    THEN ReserveGrow(M, V, capacity, f)
    ELSE Result(M, V, FALSE, 0)

\* A Resize that reserves room for one more element only.
ResizeByOne(M, V, new_size, f) ==
    IF new_size < V.size_
    THEN Result(destroy_n(M, V.buffer_, new_size, V.size_ - new_size),
                [V EXCEPT !.size_ = new_size], FALSE, 0)
    ELSE IF new_size > V.size_
    THEN With(ReserveOp(M, V, V.size_ + 1, f), LAMBDA R :
            IF R.thrown THEN R
            ELSE Result(uninitialized_value_construct_n(R.m, R.v.buffer_, V.size_,
                                                        new_size - V.size_, 0),
                        [R.v EXCEPT !.size_ = new_size], FALSE, 0))
    ELSE Result(M, V, FALSE, 0)

\* A Resize whose shrinking leaves the first of the trailing elements alive.
ResizeLeavesOne(M, V, new_size, f) ==
    IF new_size < V.size_
    THEN Result(destroy_n(M, V.buffer_, new_size + 1, V.size_ - new_size - 1),
                [V EXCEPT !.size_ = new_size], FALSE, 0)
    ELSE IF new_size > V.size_
    THEN With(ReserveOp(M, V, new_size, f), LAMBDA R :
            LET k == IF f > R.steps /\ f - R.steps <= new_size - V.size_
                     THEN f - R.steps ELSE 0
                M1 == uninitialized_value_construct_n(R.m, R.v.buffer_, V.size_,
                                                      new_size - V.size_, k)
            IN IF R.thrown THEN R
               ELSE IF k # 0 THEN Result(M1, R.v, TRUE, 0)
               ELSE Result(M1, [R.v EXCEPT !.size_ = new_size], FALSE, 0))
    ELSE Result(M, V, FALSE, 0)

\* void Resize(size_t new_size); the steps of Reserve, then one per T().
ResizeOp(M, V, new_size, f) ==
    IF new_size < V.size_
    THEN Result(destroy_n(M, V.buffer_, new_size, V.size_ - new_size),
                [V EXCEPT !.size_ = new_size], FALSE, 0)
    ELSE IF new_size > V.size_
    THEN With(ReserveOp(M, V, new_size, f), LAMBDA R :
            LET k == IF f > R.steps /\ f - R.steps <= new_size - V.size_
                     THEN f - R.steps ELSE 0
                M1 == uninitialized_value_construct_n(R.m, R.v.buffer_, V.size_,
                                                      new_size - V.size_, k)
            IN IF R.thrown THEN R
               ELSE IF k # 0 THEN Result(M1, R.v, TRUE, 0)
               ELSE Result(M1, [R.v EXCEPT !.size_ = new_size], FALSE, 0))
    ELSE Result(M, V, FALSE, 0)

\* The argument of Insert(pos, const T& value) is a reference: to an object of
\* the caller holding the value val >= 0, or to the element data_[i], written
\* Ref(i).  Deref is the value read through it in machine M.
Ref(i) == -2 - i

Deref(M, V, val) ==
    IF val <= Ref(0) THEN M.heap[V.buffer_][-1 - val] ELSE val

\* Emplace's growth into a new buffer of new_capacity: f = 1: the allocation
\* throws, 2: T(args) throws, then one step per transferred element, prefix
\* first.
EmplaceRealloc(M, V, distance, val, f, new_capacity) ==
    LET new_data == AllocateBlock(new_capacity, M.heap)
        np == XferSteps(distance)
        ns == XferSteps(V.size_ - distance)
        kp == IF f > 2 /\ f <= 2 + np THEN f - 2 ELSE 0
        ks == IF f > 2 + np /\ f <= 2 + np + ns THEN f - 2 - np ELSE 0
        M1 == Allocate(M, new_capacity)
        M2 == ConstructAt(M1, new_data, distance, Deref(M1, V, val))
        M3 == Transfer(M2, V.buffer_, 0, distance, new_data, 0, kp)
        M4 == Transfer(M3, V.buffer_, distance, V.size_ - distance,
                       new_data, distance + 1, ks)
        M5 == destroy_n(M4, V.buffer_, 0, V.size_)
    IN IF f = 1 THEN Result(M, V, TRUE, 0)
       ELSE IF f = 2 THEN Result(Deallocate(M1, new_data), V, TRUE, 0)
       ELSE IF kp # 0
       THEN Result(Deallocate(destroy_at(M3, new_data, distance), new_data),
                   V, TRUE, 0)
       ELSE IF ks # 0
       THEN Result(Deallocate(destroy_n(M4, new_data, 0, distance), new_data),
                   V, TRUE, 0)
       ELSE Result(Deallocate(M5, V.buffer_),
                   [V EXCEPT !.buffer_ = new_data, !.capacity_ = new_capacity,
                             !.size_ = @ + 1],
                   FALSE, 0)

\* A growth that makes room for the new element only.
EmplaceGrowByOne(M, V, distance, val, f) ==
    EmplaceRealloc(M, V, distance, val, f, V.size_ + 1)

\* Emplace, size_ == Capacity(): new_capacity is 1 for an empty array, else
\* size_ * 2.
EmplaceGrow(M, V, distance, val, f) ==
    EmplaceRealloc(M, V, distance, val, f, IF V.size_ = 0 THEN 1 ELSE V.size_ * 2)

\* The handler of the no-growth path: catch (...) { destroy_at(data_ + size_ + 1); throw; }
\* and then tmp leaves scope.
EmplaceCatch(M, V) == EndLocal(destroy_at(M, V.buffer_, V.size_ + 1))

\* A no-growth Emplace that keeps no temporary and assigns from the argument
\* after the shift.
EmplaceShiftLateRead(M, V, distance, val, f) ==
    LET buf == V.buffer_
        M2 == ConstructAt([M EXCEPT !.heap[buf][V.size_] = Moved(@)],
                          buf, V.size_, M.heap[buf][V.size_])
        M3 == move_backward(M2, buf, distance, V.size_ - 1, V.size_, 0)
        M4 == [M3 EXCEPT !.heap[buf][distance + 1] = Deref(M3, V, val)]
    IN IF f # 0 THEN Result(M, V, TRUE, 0)
       ELSE Result(M4, [V EXCEPT !.size_ = @ + 1], FALSE, 0)

\* Emplace, size_ < Capacity(), size_ != 0: f = 1: T tmp(args) throws; when T's
\* moves may throw, 2: the move construction of the last element, then one
\* step per move assignment of move_backward, then the assignment from tmp.
EmplaceShift(M, V, distance, val, f) ==
    LET buf == V.buffer_
        nb == Max(V.size_ - 1 - distance, 0)
        kb == IF MoveThrows /\ f > 2 /\ f <= 2 + nb THEN f - 2 ELSE 0
        tmp == Deref(M, V, val)
        M1 == Local(M)
        M2 == ConstructAt([M1 EXCEPT !.heap[buf][V.size_] = Moved(@)],
                          buf, V.size_, M.heap[buf][V.size_])
        M3 == move_backward(M2, buf, distance, V.size_ - 1, V.size_, kb)
        M4 == [M3 EXCEPT !.heap[buf][distance + 1] = tmp]
    IN IF f = 1 THEN Result(M, V, TRUE, 0)
       ELSE IF MoveThrows /\ f = 2 THEN Result(EmplaceCatch(M1, V), V, TRUE, 0)
       ELSE IF kb # 0 THEN Result(EmplaceCatch(M3, V), V, TRUE, 0)
       ELSE IF MoveThrows /\ f = 3 + nb THEN Result(EmplaceCatch(M3, V), V, TRUE, 0)
       ELSE Result(EndLocal(M4), [V EXCEPT !.size_ = @ + 1], FALSE, 0)

\* Emplace, size_ < Capacity(), size_ == 0: f = 1: T(args) throws.
EmplaceEmpty(M, V, distance, val, f) ==
    IF f = 1 THEN Result(M, V, TRUE, 0)
    ELSE Result(ConstructAt(M, V.buffer_, distance, Deref(M, V, val)),
                [V EXCEPT !.size_ = @ + 1], FALSE, 0)

\* iterator Emplace(const_iterator pos, Args&&... args), distance = pos - cbegin()
EmplaceOp(M, V, distance, val, f) ==
    Return(IF V.size_ = V.capacity_ THEN EmplaceGrow(M, V, distance, val, f)
           ELSE IF V.size_ # 0 THEN EmplaceShift(M, V, distance, val, f)
           ELSE EmplaceEmpty(M, V, distance, val, f),
           distance)

\* A PopBack that forgets the last element without destroying it.
PopBackKeepsLast(M, V) ==
    Result(M, [V EXCEPT !.size_ = @ - 1], FALSE, 0)

\* void PopBack() noexcept
PopBackOp(M, V) ==
    Result(destroy_at(M, V.buffer_, V.size_ - 1), [V EXCEPT !.size_ = @ - 1], FALSE, 0)

\* An Erase that shifts [pos + 1, end() - 1) and so never moves the last element.
EraseShortShift(M, V, distance, f) ==
    LET k == IF MoveThrows /\ f >= 1 /\ f <= V.size_ - 2 - distance THEN f ELSE 0
        M1 == std_move(M, V.buffer_, distance + 1, Max(V.size_ - 1, distance + 1),
                       distance, k)
    IN IF k # 0 THEN Result(M1, V, TRUE, 0)
       ELSE Return(Result(destroy_at(M1, V.buffer_, V.size_ - 1),
                          [V EXCEPT !.size_ = @ - 1], FALSE, 0),
                   distance)

\* iterator Erase(const_iterator pos); f = k: the k-th move assignment throws.
EraseOp(M, V, distance, f) ==
    LET k == IF MoveThrows /\ f >= 1 /\ f <= V.size_ - 1 - distance THEN f ELSE 0
        M1 == std_move(M, V.buffer_, distance + 1, V.size_, distance, k)
    IN IF k # 0 THEN Result(M1, V, TRUE, 0)
       ELSE Return(Result(destroy_at(M1, V.buffer_, V.size_ - 1),
                          [V EXCEPT !.size_ = @ - 1], FALSE, 0),
                   distance)

\* ~Vector(), then ~RawMemory() of data_
DtorOp(M, V) ==
    Result(Deallocate(destroy_n(M, V.buffer_, 0, V.size_), V.buffer_), NoVec, FALSE, 0)

\* explicit Vector(size_t size); f = 1: the allocation throws, 1 + k: the k-th
\* T() throws; data_ is then destroyed and the Vector never exists.
VectorNOp(M, size, f) ==
    LET buf == AllocateBlock(size, M.heap)
        k == IF f >= 2 /\ f - 1 <= size THEN f - 1 ELSE 0
        M1 == Allocate(M, size)
        M2 == uninitialized_value_construct_n(M1, buf, 0, size, k)
    IN IF f = 1 /\ size # 0 THEN Result(M, NoVec, TRUE, 0)
       ELSE IF k # 0 THEN Result(Deallocate(M2, buf), NoVec, TRUE, 0)
       ELSE Result(M2, [live |-> TRUE, buffer_ |-> buf, capacity_ |-> size,
                        size_ |-> size], FALSE, 0)

\* A copy construction that takes over other's members, buffer included.
VectorCopyShallow(M, other, f) ==
    Result(M, other, FALSE, 0)

\* Vector(const Vector& other); f as for Vector(size_t), per copy.
VectorCopyOp(M, other, f) ==
    LET buf == AllocateBlock(other.size_, M.heap)
        k == IF f >= 2 /\ f - 1 <= other.size_ THEN f - 1 ELSE 0
        M1 == Allocate(M, other.size_)
        M2 == uninitialized_copy_n(M1, other.buffer_, 0, other.size_, buf, 0, k)
    IN IF f = 1 /\ other.size_ # 0 THEN Result(M, NoVec, TRUE, 0)
       ELSE IF k # 0 THEN Result(Deallocate(M2, buf), NoVec, TRUE, 0)
       ELSE Result(M2, [live |-> TRUE, buffer_ |-> buf, capacity_ |-> other.size_,
                        size_ |-> other.size_], FALSE, 0)

\* for (i < min(rhs.size_, size_)) data_[i] = rhs.data_[i]; the k-th copy
\* assignment throws.
AssignPrefix(M0, V, rhs, n, k) ==
    With(M0, LAMBDA M :
        LET done == IF k = 0 THEN n ELSE k - 1
        IN IF done <= 0 THEN M
           ELSE [M EXCEPT !.heap[V.buffer_] =
                    [j \in 1..Len(@) |->
                        IF j <= done THEN M.heap[rhs.buffer_][j] ELSE @[j]]])

\* A copy assignment that always builds a temporary copy and swaps it in.
CopyAssignRebuilds(M, V, rhs, f) ==
    With(VectorCopyOp(M, rhs, f), LAMBDA T :
        IF T.thrown THEN Result(T.m, V, TRUE, 0)
        ELSE Result(DtorOp(T.m, V).m, T.v, FALSE, 0))

\* Vector& operator=(const Vector& rhs), this != &rhs.
CopyAssignOp(M, V, rhs, f) ==
    IF rhs.size_ > V.capacity_
    THEN With(VectorCopyOp(M, rhs, f), LAMBDA T :
            IF T.thrown THEN Result(T.m, V, TRUE, 0)
            ELSE Result(DtorOp(T.m, V).m, T.v, FALSE, 0))
    ELSE LET n == Min(rhs.size_, V.size_)
             ka == IF f >= 1 /\ f <= n THEN f ELSE 0
             kc == IF f > n /\ f - n <= rhs.size_ - V.size_ THEN f - n ELSE 0
             M1 == AssignPrefix(M, V, rhs, n, ka)
         IN IF ka # 0 THEN Result(M1, V, TRUE, 0)
            ELSE IF rhs.size_ <= V.size_
            THEN Result(destroy_n(M1, V.buffer_, rhs.size_, V.size_ - rhs.size_),
                        [V EXCEPT !.size_ = rhs.size_], FALSE, 0)
            ELSE IF kc # 0 THEN Result(M1, V, TRUE, 0)
            ELSE Result(uninitialized_copy_n(M1, rhs.buffer_, V.size_,
                                             rhs.size_ - V.size_, V.buffer_, V.size_, 0),
                        [V EXCEPT !.size_ = rhs.size_], FALSE, 0)

\* ------------------------------------------------------------- actions
\* The steps of each operation that may throw, numbered in the order the
\* operation takes them (f = 0: none throws).
VectorNSteps(size) == IF size = 0 THEN 0 ELSE 1 + size

ReserveSteps(V, capacity) ==
    IF capacity > V.capacity_ THEN 1 + XferSteps(V.size_) ELSE 0

ResizeSteps(V, new_size) ==
    IF new_size > V.size_ THEN ReserveSteps(V, new_size) + (new_size - V.size_) ELSE 0

EmplaceSteps(V, distance) ==
    IF V.size_ = V.capacity_ THEN 2 + XferSteps(V.size_)
    ELSE IF V.size_ # 0 /\ MoveThrows THEN 3 + Max(V.size_ - 1 - distance, 0)
    ELSE 1

EraseSteps(V, distance) == IF MoveThrows THEN V.size_ - 1 - distance ELSE 0

CopyAssignSteps(V, rhs) ==
    IF rhs.size_ > V.capacity_ THEN VectorNSteps(rhs.size_) ELSE rhs.size_

\* The process dies: its memory and its objects are gone.
Crash(op, id, a) ==
    /\ heap' = [b \in Blocks |-> <<>>]
    /\ vec' = [v \in VecIds |-> NoVec]
    /\ objects' = 0
    /\ crashed' = TRUE
    /\ raw' = [r \in RawIds |-> NoRaw]
    /\ last' = Did(op, id, a, FALSE)
    /\ rt' = NoTrip
    /\ UNCHANGED <<fails, tp, traced>>

\* The state operation op(a) on Vector id leaves, R being its result, f the
\* step asked to throw and trip the round trip a return makes.  Undefined
\* behaviour met on the way takes any of its outcomes.
Finish(R, id, op, a, f, trip) ==
    \E r \in {R} :
       /\ f = 0 \/ r.thrown
       /\ \E u \in (IF r.m.ub = 0 /\ ~r.m.wild THEN {"skip"} ELSE UBOutcomes) :
             IF u = "crash" \/ (u = "run" /\ r.m.wild)
             THEN Crash(op, id, a)
             ELSE /\ heap' = r.m.heap
                  /\ objects' = r.m.objects - (IF u = "run" THEN r.m.ub ELSE 0)
                  /\ vec' = [vec EXCEPT ![id] = r.v]
                  /\ fails' = IF f = 0 THEN fails ELSE fails + 1
                  /\ last' = Did(op, id, a, ~r.thrown)
                  /\ rt' = IF r.thrown \/ ~traced THEN NoTrip ELSE trip
                  /\ UNCHANGED <<raw, crashed, tp, traced>>

CanFail(f) == f = 0 \/ fails < MaxFail

\* Vector() = default
VectorDefault(id) ==
    /\ ~crashed /\ ~vec[id].live
    /\ Finish(Result(Machine, [NoVec EXCEPT !.live = TRUE], FALSE, 0),
              id, "Vector", 0, 0, NoTrip)

VectorN(id, size, f) ==
    /\ ~crashed /\ ~vec[id].live /\ CanFail(f)
    /\ size = 0 \/ HasFree(heap)
    /\ Finish(VectorNOp(Machine, size, f), id, "VectorN", size, f, NoTrip)

VectorCopy(id, other, f) ==
    /\ ~crashed /\ ~vec[id].live /\ vec[other].live /\ tp.copyable /\ CanFail(f)
    /\ vec[other].size_ = 0 \/ HasFree(heap)
    /\ Finish(VectorCopyOp(Machine, vec[other], f), id, "VectorCopy", other, f, NoTrip)

\* A move construction that leaves the source's members as they were.
VectorMoveKeepsSource(v, id, other) ==
    [v EXCEPT ![id] = v[other]]

\* Vector(Vector&& other): data_(std::move(other.data_)),
\* size_(std::exchange(other.size_, 0)); the Vectors v with id built from other.
VectorMoveOp(v, id, other) ==
    [v EXCEPT ![id] = v[other],
              ![other] = [@ EXCEPT !.buffer_ = nullptr, !.capacity_ = 0, !.size_ = 0]]

\* A Swap that empties other instead of handing it this Vector's members.
SwapEmptiesOther(v, id, other) ==
    [v EXCEPT ![id] = v[other],
              ![other] = [@ EXCEPT !.buffer_ = nullptr, !.capacity_ = 0, !.size_ = 0]]

\* void Swap(Vector& other): data_.Swap(other.data_); std::swap(size_, other.size_)
SwapOp(v, id, other) ==
    [v EXCEPT ![id] = v[other], ![other] = v[id]]

\* Vector& operator=(Vector&& rhs): if (this != &rhs) Swap(rhs)
MoveAssignOp(v, id, rhs) ==
    IF id # rhs THEN SwapOp(v, id, rhs) ELSE v

\* Vector(Vector&& other) noexcept
VectorMove(id, other) ==
    /\ ~crashed /\ ~vec[id].live /\ vec[other].live
    /\ vec' = VectorMoveOp(vec, id, other)
    /\ last' = Did("VectorMove", id, other, TRUE)
    /\ rt' = NoTrip
    /\ UNCHANGED <<heap, raw, objects, fails, crashed, tp, traced>>

\* Vector& operator=(const Vector& rhs)
CopyAssign(id, rhs, f) ==
    /\ ~crashed /\ vec[id].live /\ vec[rhs].live /\ tp.copyable /\ CanFail(f)
    /\ (id # rhs /\ vec[rhs].size_ > vec[id].capacity_) => HasFree(heap)
    /\ Finish(IF id = rhs THEN Result(Machine, vec[id], FALSE, 0)
              ELSE CopyAssignOp(Machine, vec[id], vec[rhs], f),
              id, "CopyAssign", rhs, f, NoTrip)

\* void Swap(Vector& other) noexcept
Swap(id, other) ==
    /\ ~crashed /\ vec[id].live /\ vec[other].live
    /\ vec' = SwapOp(vec, id, other)
    /\ last' = Did("Swap", id, other, TRUE)
    /\ rt' = NoTrip
    /\ UNCHANGED <<heap, raw, objects, fails, crashed, tp, traced>>

\* Vector& operator=(Vector&& rhs) noexcept
MoveAssign(id, rhs) ==
    /\ ~crashed /\ vec[id].live /\ vec[rhs].live
    /\ vec' = MoveAssignOp(vec, id, rhs)
    /\ last' = Did("MoveAssign", id, rhs, TRUE)
    /\ rt' = NoTrip
    /\ UNCHANGED <<heap, raw, objects, fails, crashed, tp, traced>>

Dtor(id) ==
    /\ ~crashed /\ vec[id].live
    /\ Finish(DtorOp(Machine, vec[id]), id, "Dtor", 0, 0, NoTrip)

Resize(id, new_size, f) ==
    /\ ~crashed /\ vec[id].live /\ CanFail(f)
    /\ new_size > vec[id].capacity_ => HasFree(heap)
    /\ Finish(ResizeOp(Machine, vec[id], new_size, f), id, "Resize", new_size, f, NoTrip)

Reserve(id, capacity, f) ==
    /\ ~crashed /\ vec[id].live /\ CanFail(f)
    /\ capacity > vec[id].capacity_ => HasFree(heap)
    /\ Finish(ReserveOp(Machine, vec[id], capacity, f), id, "Reserve", capacity, f, NoTrip)

\* Emplace(pos, args...), and through it Insert(pos, value), EmplaceBack(args...)
\* and PushBack(value) (pos = cend()).  pos lies in [begin, end].
Emplace(id, distance, val, f) ==
    /\ ~crashed /\ vec[id].live /\ CanFail(f)
    /\ distance <= vec[id].size_
    /\ vec[id].size_ = vec[id].capacity_ => HasFree(heap)
    /\ \E r \in {EmplaceOp(Machine, vec[id], distance, val, f)} :
          Finish(r, id, "Emplace", distance, f,
                 [state |-> "open", id |-> id, pos |-> distance, val |-> val,
                  ret |-> r.ret, from |-> Elems(heap, vec[id])])

\* Insert(pos, (*this)[index]): the value argument refers to an element of
\* the array itself; T is copyable.
InsertRef(id, distance, index) ==
    /\ ~crashed /\ vec[id].live /\ tp.copyable
    /\ distance <= vec[id].size_ /\ index < vec[id].size_
    /\ vec[id].size_ = vec[id].capacity_ => HasFree(heap)
    /\ \E r \in {EmplaceOp(Machine, vec[id], distance, Ref(index), 0)} :
          Finish(r, id, "InsertRef", distance, 0,
                 [state |-> "open", id |-> id, pos |-> distance,
                  val |-> Deref(Machine, vec[id], Ref(index)),
                  ret |-> r.ret, from |-> Elems(heap, vec[id])])

\* PopBack() on a non-empty array
PopBack(id) ==
    /\ ~crashed /\ vec[id].live /\ vec[id].size_ > 0
    /\ Finish(PopBackOp(Machine, vec[id]), id, "PopBack", 0, 0, NoTrip)

\* Erase(pos) at a dereferenceable position
Erase(id, distance, f) ==
    /\ ~crashed /\ vec[id].live /\ CanFail(f)
    /\ distance < vec[id].size_
    /\ Finish(EraseOp(Machine, vec[id], distance, f), id, "Erase", distance, f,
              IF rt.state = "open" /\ rt.id = id /\ rt.pos = distance
              THEN [NoTrip EXCEPT !.state = "closed", !.id = id, !.from = rt.from]
              ELSE NoTrip)

\* The allocator grants the program no block of more than cap slots.
Granted(id, cap) == vec'[id].capacity_ <= cap

\* The operations on one Vector, for a program whose Vectors are ids, that gets
\* blocks of up to cap slots and stores the values 1..maxv.  Of the requests
\* Reserve(n) that need no new block, the program makes the extreme ones.
Unary(ids, cap, maxv) ==
    \/ \E id \in ids : VectorDefault(id)
    \/ \E id \in ids, n \in 0..cap : \E f \in 0..VectorNSteps(n) : VectorN(id, n, f)
    \/ \E id \in ids : Dtor(id)
    \/ \E id \in ids, n \in 0..cap : \E f \in 0..ResizeSteps(vec[id], n) :
          Resize(id, n, f)
    \/ \E id \in ids, n \in 0..cap : \E f \in 0..ReserveSteps(vec[id], n) :
          Reserve(id, n, f) /\ (n = 0 \/ n >= vec[id].capacity_)
    \/ \E id \in ids, p \in 0..cap, v \in 1..maxv : \E f \in 0..EmplaceSteps(vec[id], p) :
          Emplace(id, p, v, f) /\ Granted(id, cap)
    \/ \E id \in ids : PopBack(id)
    \/ \E id \in ids, p \in 0..cap : \E f \in 0..EraseSteps(vec[id], p) :
          Erase(id, p, f)

\* The operations between two Vectors (or a Vector and itself).
Binary(ids) ==
    \/ \E id, o \in ids : \E f \in 0..VectorNSteps(vec[o].size_) : VectorCopy(id, o, f)
    \/ \E id, o \in ids : VectorMove(id, o)
    \/ \E id, o \in ids : \E f \in 0..CopyAssignSteps(vec[id], vec[o]) :
          CopyAssign(id, o, f)
    \/ \E id, o \in ids : MoveAssign(id, o)
    \/ \E id, o \in ids : Swap(id, o)

\* Insertions of an element of the array into the array itself.
SelfInsert(ids, cap) ==
    \E id \in ids, p \in 0..cap, i \in 0..(cap - 1) :
       InsertRef(id, p, i) /\ Granted(id, cap)

\* A program working on a single Vector.
NextOne == Unary({1}, MaxCap, MaxVal) \/ SelfInsert({1}, MaxCap)

SpecOne == Init /\ [][NextOne]_vars

\* A program working on NVec Vectors, its history not kept.
Next == Unary(VecIds, PairCap, PairVal) \/ Binary(VecIds)

Spec == InitUntraced /\ [][Next]_vars

\* The operations of a program on its RawMemory objects, of up to cap slots.
RawOps(cap) ==
    \/ \E r \in RawIds, n \in 0..cap, f \in 0..1 : RawCtor(r, n, f)
    \/ \E r, o \in RawIds : RawMoveCtor(r, o)
    \/ \E r, o \in RawIds : RawMoveAssign(r, o)
    \/ \E r, o \in RawIds : RawSwap(r, o)
    \/ \E r \in RawIds : RawDtor(r)

NextRaw == RawOps(MaxCap)

SpecRaw == Init /\ [][NextRaw]_vars

\* A program working on RawMemory objects and Vectors side by side, all
\* drawing their blocks from the one allocator, its history not kept.
NextMixed == RawOps(MixRaw) \/ Unary(VecIds, MixCap, PairVal) \/ Binary(VecIds)

SpecMixed == InitUntraced /\ [][NextMixed]_vars

\* ---------------------------------------------------------- properties
\* s with v inserted before index p (0-based); s without its element at p.
Ins(s, p, v) == SubSeq(s, 1, p) \o <<v>> \o SubSeq(s, p + 1, Len(s))
Del(s, p) == SubSeq(s, 1, p) \o SubSeq(s, p + 2, Len(s))

\* C1: a successful Emplace/Insert/EmplaceBack/PushBack of v at p on s leaves
\* exactly s[0..p) ++ [v] ++ s[p..size), one element more, and returns an
\* iterator to index p, for every element type and whether or not it grows.
C1_EmplaceInsertsAtPos ==
    rt.state = "open" =>
        /\ Elems(heap, vec[rt.id]) = Ins(rt.from, rt.pos, rt.val)
        /\ vec[rt.id].size_ = Len(rt.from) + 1
        /\ rt.ret = rt.pos

\* C2: between two operations, also after one that threw, exactly the slots
\* [0, size) of a Vector's buffer hold live elements and the slots
\* [size, capacity) hold none.
C2_LiveElementsAreThePrefix ==
    \A id \in VecIds :
        vec[id].live =>
            \A i \in 0..(vec[id].capacity_ - 1) :
                IsLive(heap, vec[id].buffer_, i) <=> i < vec[id].size_

\* The element types whose failed transfer can be undone: the transfer
\* copies, or moves with a move constructor that cannot throw.
Recoverable == tp.copyable \/ tp.nothrowMove

\* The step is a Reserve that threw, or an Emplace at size = capacity that threw.
FailedGrowth ==
    /\ ~last'.ok
    /\ \/ last'.op = "Reserve"
       \/ last'.op = "Emplace" /\ vec[last'.id].size_ = vec[last'.id].capacity_

\* C3 as claimed: a Reserve or growing Emplace that fails (allocation, the new
\* element's construction, the transfer of the Nth element) leaves Size(),
\* Capacity() and every element's value as they were, for every element type.
C3_FailedGrowthChangesNothing ==
    [][FailedGrowth =>
          /\ vec'[last'.id] = vec[last'.id]
          /\ Elems(heap', vec'[last'.id]) = Elems(heap, vec[last'.id])]_vars

\* C3 as amended: the failed call leaves Size(), Capacity() and the buffer as
\* they were, and every element's value too unless T is not copy-constructible
\* and has a move constructor that may throw.
C3_FailedGrowthStrongIfRecoverable ==
    [][FailedGrowth =>
          /\ ~crashed'
          /\ vec'[last'.id] = vec[last'.id]
          /\ Recoverable =>
                Elems(heap', vec'[last'.id]) = Elems(heap, vec[last'.id])]_vars

C3_Witness ==
    /\ last.op = "Emplace" /\ ~last.ok /\ ~crashed
    /\ tp.copyable /\ ~tp.nothrowMove
    /\ vec[1].live /\ vec[1].size_ = 2 /\ vec[1].capacity_ = 2
    /\ Elems(heap, vec[1]) = <<Default, 1>>

\* C4: once every Vector has been destroyed, every element ever constructed
\* has been destroyed: constructions and destructions are equal in number.
C4_NoElementLeaks ==
    (\A id \in VecIds : ~vec[id].live) => objects = 0

\* C5: every block a RawMemory allocated is freed exactly once by the time
\* all RawMemory objects are destroyed, and a move construction or move
\* assignment leaves the source empty and the destination with its block.
C5_BlocksFreedExactlyOnce ==
    [][/\ (\A r \in RawIds : ~raw'[r].live) => (\A b \in Blocks : IsFree(heap', b))
       /\ last'.op = "RawDtor" =>
             \/ raw[last'.id].buffer_ = nullptr
             \/ ~IsFree(heap, raw[last'.id].buffer_)
       /\ (last'.op \in {"RawMoveCtor", "RawMoveAssign"} /\ last'.id # last'.a) =>
             /\ raw'[last'.a].buffer_ = nullptr /\ raw'[last'.a].capacity_ = 0
             /\ raw'[last'.id].buffer_ = raw[last'.a].buffer_
             /\ raw'[last'.id].capacity_ = raw[last'.a].capacity_]_vars

\* C6: Size() <= Capacity() in every state, also after operations that threw,
\* and a default-constructed Vector has size = capacity = 0.
C6_SizeWithinCapacity ==
    [][\A id \in VecIds :
          /\ vec[id].size_ <= vec[id].capacity_
          /\ vec'[id].size_ <= vec'[id].capacity_
          /\ VectorDefault(id) =>
                /\ vec'[id].live
                /\ vec'[id].size_ = 0 /\ vec'[id].capacity_ = 0]_vars

\* An operation has thrown, and a full Vector stands next to one with room.
C6_Witness ==
    /\ fails > 0 /\ ~crashed
    /\ vec[1].live /\ vec[1].size_ = PairCap /\ vec[1].capacity_ = PairCap
    /\ vec[2].live /\ 0 < vec[2].size_ /\ vec[2].size_ < vec[2].capacity_

\* The least power of two that is at least n (0 for 0).
RECURSIVE PowerAbove(_, _)
PowerAbove(n, c) == IF c >= n THEN c ELSE PowerAbove(n, 2 * c)
Doubled(n) == IF n = 0 THEN 0 ELSE PowerAbove(n, 1)

\* C7: an Emplace/Insert/EmplaceBack/PushBack that returns changes the
\* capacity only when size = capacity, then to max(1, 2 * size), which is at
\* least twice the old one; else capacity and buffer stay.  So appends keep
\* the capacity of an array grown from empty at the least power of two that
\* holds its size, and reallocate only at the sizes 0, 1, 2, 4, ...
C7_CapacityDoubles ==
    [][(last'.op = "Emplace" /\ last'.ok) =>
          LET old == vec[last'.id]
              new == vec'[last'.id]
          IN /\ IF old.size_ = old.capacity_
                THEN /\ new.capacity_ = Max(1, 2 * old.size_)
                     /\ new.capacity_ >= 2 * old.capacity_
                     /\ new.buffer_ # old.buffer_
                ELSE /\ new.capacity_ = old.capacity_
                     /\ new.buffer_ = old.buffer_
             /\ (last'.a = old.size_ /\ old.capacity_ = Doubled(old.size_)) =>
                   /\ new.capacity_ = Doubled(new.size_)
                   /\ new.buffer_ # old.buffer_ <=> old.size_ \in {0, 1, 2, 4, 8}]_vars

C7_Witness ==
    /\ last.op = "Emplace" /\ last.ok
    /\ rt.state = "open" /\ Len(rt.from) = 2 /\ rt.pos = 2
    /\ vec[rt.id].capacity_ = 4 /\ vec[rt.id].size_ = 3

\* C8: a Reserve(n) that returns leaves Size() and every element's value as
\* they were; with n > capacity the capacity becomes exactly n, else capacity,
\* buffer and heap stay; so Capacity() >= n afterwards.  Size() stays even
\* when the call throws.
C8_ReserveKeepsElements ==
    [][last'.op = "Reserve" =>
          LET old == vec[last'.id]
              new == vec'[last'.id]
              n == last'.a
          IN /\ ~crashed'
             /\ new.size_ = old.size_
             /\ last'.ok =>
                   /\ Elems(heap', new) = Elems(heap, old)
                   /\ new.capacity_ >= n
                   /\ IF n > old.capacity_
                      THEN new.capacity_ = n
                      ELSE new = old /\ heap' = heap]_vars

C8_Witness ==
    /\ last.op = "Reserve" /\ last.ok /\ last.a = 3
    /\ tp.moveClears
    /\ vec[1].live /\ vec[1].capacity_ = 3
    /\ Elems(heap, vec[1]) = <<Default, 1>>

\* C9: an Erase at a dereferenceable p that returns leaves s[0..p) ++
\* s[p+1..size): one element less, exactly one element destroyed, the buffer
\* kept, and it returns an iterator to index p.
C9_EraseRemovesAtPos ==
    [][(last'.op = "Erase" /\ last'.ok) =>
          LET old == vec[last'.id]
              new == vec'[last'.id]
              p == last'.a
          IN /\ Elems(heap', new) = Del(Elems(heap, old), p)
             /\ new.size_ = old.size_ - 1
             /\ new.buffer_ = old.buffer_ /\ new.capacity_ = old.capacity_
             /\ objects' = objects - 1
             /\ EraseOp(Machine, old, p, 0).ret = p]_vars

C9_Witness ==
    /\ last.op = "Erase" /\ last.ok /\ last.a = 1
    /\ tp.moveClears
    /\ vec[1].live /\ Elems(heap, vec[1]) = <<1, Default, 1>>

\* C10: Insert(p, v) followed by Erase(p) leaves the original sequence and
\* Size(), whether or not the Insert grew the buffer.
C10_InsertEraseRoundTrip ==
    rt.state = "closed" =>
        /\ Elems(heap, vec[rt.id]) = rt.from
        /\ vec[rt.id].size_ = Len(rt.from)

\* C11: a Resize(n) that returns ends with Size() = n.  n < size: the elements
\* [0, n) keep their values, the size - n trailing ones are destroyed, buffer
\* and capacity stay.  n > size: the elements [0, size) keep their values,
\* [size, n) are value-initialized, and the capacity becomes n only when n
\* exceeds it.  n = size: nothing changes.
C11_ResizeSetsSize ==
    [][(last'.op = "Resize" /\ last'.ok) =>
          LET old == vec[last'.id]
              new == vec'[last'.id]
              n == last'.a
              was == Elems(heap, old)
              now == Elems(heap', new)
          IN /\ new.size_ = n
             /\ IF n < old.size_
                THEN /\ now = SubSeq(was, 1, n)
                     /\ objects' = objects - (old.size_ - n)
                     /\ \A i \in n..(old.size_ - 1) : ~IsLive(heap', new.buffer_, i)
                     /\ new.buffer_ = old.buffer_ /\ new.capacity_ = old.capacity_
                ELSE IF n > old.size_
                THEN /\ SubSeq(now, 1, old.size_) = was
                     /\ \A i \in (old.size_ + 1)..n : now[i] = Default
                     /\ objects' = objects + (n - old.size_)
                     /\ new.capacity_ = IF n > old.capacity_ THEN n ELSE old.capacity_
                     /\ n <= old.capacity_ => new.buffer_ = old.buffer_
                ELSE new = old /\ heap' = heap /\ objects' = objects]_vars

\* A Resize(4) has grown [1, 1], of a type whose move changes the source.
C11_Witness ==
    /\ last.op = "Resize" /\ last.ok /\ last.a = 4
    /\ tp.moveClears
    /\ vec[1].live /\ vec[1].capacity_ = 4
    /\ Elems(heap, vec[1]) = <<1, 1, Default, Default>>

\* C12: a copy assignment a = rhs that returns leaves a with rhs's size and
\* elements and rhs as it was; a's capacity is rhs.size if that exceeded it,
\* else a keeps capacity and buffer; a = a changes nothing.  One that throws
\* leaves a's size as it was and, when rhs.size exceeded a's capacity, a
\* wholly unmodified.
C12_CopyAssignCopies ==
    [][\A id, rhs \in VecIds :
          \A f \in (IF fails' = fails THEN {0}
                    ELSE 1..CopyAssignSteps(vec[id], vec[rhs])) :
             CopyAssign(id, rhs, f) =>
                LET a == vec[id]
                    b == vec[rhs]
                    new == vec'[id]
                IN IF id = rhs
                   THEN vec' = vec /\ heap' = heap /\ objects' = objects
                   ELSE /\ vec'[rhs] = b
                        /\ Elems(heap', vec'[rhs]) = Elems(heap, b)
                        /\ IF f = 0
                           THEN /\ new.size_ = b.size_
                                /\ Elems(heap', new) = Elems(heap, b)
                                /\ IF b.size_ > a.capacity_
                                   THEN new.capacity_ = b.size_
                                   ELSE /\ new.capacity_ = a.capacity_
                                        /\ new.buffer_ = a.buffer_
                           ELSE /\ new.size_ = a.size_
                                /\ b.size_ > a.capacity_ =>
                                      /\ new = a
                                      /\ Elems(heap', new) = Elems(heap, a)]_vars

\* Vector 1 holds the elements of Vector 2 in storage of its own that is
\* larger than a copy construction would have made it (capacity 2 for one
\* element).
C12_Witness ==
    /\ tp.copyable /\ ~crashed
    /\ vec[1].live /\ vec[2].live
    /\ vec[2].size_ = 1 /\ Elems(heap, vec[2]) = <<1>>
    /\ Elems(heap, vec[1]) = Elems(heap, vec[2])
    /\ vec[1].capacity_ = 2 /\ vec[2].capacity_ = 1
    /\ vec[1].buffer_ # vec[2].buffer_

\* C13: move-constructing a Vector from other gives it other's size, capacity,
\* buffer and element values while no element is constructed, copied or
\* destroyed (heap and object count untouched); other is left alive with
\* size 0, capacity 0 and no buffer.
C13_MoveCtorTakesOver ==
    [][\A id, other \in VecIds :
          VectorMove(id, other) =>
             /\ vec'[id].size_ = vec[other].size_
             /\ vec'[id].capacity_ = vec[other].capacity_
             /\ vec'[id].buffer_ = vec[other].buffer_
             /\ vec'[id].live
             /\ Elems(heap', vec'[id]) = Elems(heap, vec[other])
             /\ heap' = heap /\ objects' = objects
             /\ vec'[other].live
             /\ vec'[other].size_ = 0
             /\ vec'[other].capacity_ = 0
             /\ vec'[other].buffer_ = nullptr]_vars

\* Vector 2 owns the first block allocated, with room to spare, while
\* Vector 1 is alive and owns nothing.
C13_Witness ==
    /\ ~crashed
    /\ vec[2].live /\ vec[2].buffer_ = 1 /\ vec[2].capacity_ = 2
    /\ Elems(heap, vec[2]) = <<1>>
    /\ vec[1].live /\ vec[1].buffer_ = nullptr
    /\ vec[1].capacity_ = 0 /\ vec[1].size_ = 0

\* C14: a = std::move(rhs) and a.Swap(rhs) exchange the two Vectors' buffer,
\* capacity and size and touch no element: a holds what rhs held, rhs holds
\* what a held, a second Swap restores both, and a = std::move(a) changes
\* nothing.
C14_SwapExchanges ==
    [][\A id, other \in VecIds :
          (Swap(id, other) \/ MoveAssign(id, other)) =>
             /\ vec'[id] = vec[other]
             /\ vec'[other] = vec[id]
             /\ Elems(heap', vec'[id]) = Elems(heap, vec[other])
             /\ Elems(heap', vec'[other]) = Elems(heap, vec[id])
             /\ heap' = heap /\ objects' = objects
             /\ SwapOp(vec', id, other) = vec
             /\ id = other => vec' = vec]_vars

\* Two live Vectors with different sizes and capacities, the second one
\* owning the block that was allocated first.
C14_Witness ==
    /\ ~crashed /\ vec[1].live /\ vec[2].live
    /\ vec[2].buffer_ = 1 /\ vec[2].capacity_ = 1 /\ Elems(heap, vec[2]) = <<1>>
    /\ vec[1].buffer_ = 2 /\ vec[1].capacity_ = 2
    /\ Elems(heap, vec[1]) = <<Default, Default>>

\* A step is an operation of the Vector id alone: a member function called on
\* it with no other Vector for an argument, or a copy assignment to it.
Mutates(id) ==
    \/ Unary({id}, PairCap, PairVal)
    \/ \E o \in VecIds : \E f \in 0..CopyAssignSteps(vec[id], vec[o]) :
          CopyAssign(id, o, f)

C16_SelfInsertAsCopy ==
    [][(last'.op = "InsertRef" /\ last'.ok) =>
          LET V == vec[last'.id]
              c == rt'.val
              R == EmplaceOp(Machine, V, last'.a, c, 0)
          IN /\ \E i \in 0..(V.size_ - 1) : c = heap[V.buffer_][i + 1]
             /\ vec'[last'.id] = R.v
             /\ heap' = R.m.heap
             /\ objects' = R.m.objects
             /\ Elems(heap', vec'[last'.id]) = Elems(R.m.heap, R.v)]_vars

\* Insert(0, a[1]) on [1, 0] with room for a third element: the referenced
\* element is shifted before the assignment to slot 0.
C16_Witness ==
    /\ last.op = "InsertRef" /\ last.ok /\ last.a = 0
    /\ rt.state = "open" /\ rt.from = <<1, Default>> /\ rt.val = Default
    /\ vec[1].capacity_ = 4
    /\ Elems(heap, vec[1]) = <<Default, 1, Default>>

\* C17: Resize(n) with n <= size, Erase at a valid position and PopBack on a
\* non-empty array keep the buffer and the capacity and allocate no block,
\* and when they return the elements below the removed ones keep their
\* values; PopBack destroys exactly the last element and takes 1 off the size.
C17_ShrinkingKeepsStorage ==
    [][LET id == last'.id
           old == vec[id]
           new == vec'[id]
           was == Elems(heap, old)
           now == Elems(heap', new)
           kept == IF last'.op = "Resize" THEN last'.a
                   ELSE IF last'.op = "Erase" THEN last'.a
                   ELSE old.size_ - 1
       IN (/\ \/ last'.op = "Resize" /\ last'.a <= old.size_
              \/ last'.op = "Erase"
              \/ last'.op = "PopBack"
           /\ ~crashed') =>
             /\ new.buffer_ = old.buffer_
             /\ new.capacity_ = old.capacity_
             /\ \A b \in Blocks : IsFree(heap', b) <=> IsFree(heap, b)
             /\ last'.ok => SubSeq(now, 1, kept) = SubSeq(was, 1, kept)
             /\ last'.op = "PopBack" =>
                   /\ last'.ok
                   /\ new.size_ = old.size_ - 1
                   /\ now = SubSeq(was, 1, old.size_ - 1)
                   /\ objects' = objects - 1
                   /\ ~IsLive(heap', new.buffer_, old.size_ - 1)]_vars

\* PopBack has just taken the last of three elements off a full array.
C17_Witness ==
    /\ last.op = "PopBack" /\ last.ok
    /\ vec[1].live /\ vec[1].capacity_ = 3 /\ vec[1].size_ = 2
    /\ Elems(heap, vec[1]) = <<Default, 1>>
    /\ ~IsLive(heap, vec[1].buffer_, 2)

\* The live RawMemory objects and Vectors whose buffer is block b.
Owners(b) ==
    {<<"RawMemory", r>> : r \in {x \in RawIds : raw[x].live /\ raw[x].buffer_ = b}}
    \cup {<<"Vector", v>> : v \in {x \in VecIds : vec[x].live /\ vec[x].buffer_ = b}}

\* C18: in every state no two live RawMemory or Vector objects have the same
\* non-null buffer: after any moves, swaps, copies, growths and destructions
\* a block is owned by at most one live object.
C18_NoSharedBlocks ==
    \A b \in Blocks : Cardinality(Owners(b)) <= 1

\* All three blocks are owned, each by one object, next to a RawMemory that
\* has been emptied.
C18_Witness ==
    /\ \A b \in Blocks : Cardinality(Owners(b)) = 1
    /\ \E r \in RawIds : raw[r].live /\ raw[r].buffer_ = nullptr
    /\ vec[1].live /\ vec[2].live /\ vec[1].size_ = 1 /\ vec[2].size_ = 1
    /\ fails > 0

\* C19: a growing Emplace/Insert that throws, in the transfer of the prefix or
\* of the suffix, has destroyed everything it constructed in the new buffer
\* (the new element and the elements already transferred), has freed the new
\* buffer, and leaves the old buffer in place with all its elements alive.
C19_FailedGrowthCleansUp ==
    [][(/\ last'.op = "Emplace" /\ ~last'.ok /\ ~crashed'
        /\ vec[last'.id].size_ = vec[last'.id].capacity_) =>
          LET V == vec[last'.id]
          IN /\ objects' = objects
             /\ \A b \in Blocks : IsFree(heap', b) <=> IsFree(heap, b)
             /\ vec'[last'.id] = V
             /\ \A i \in 0..(V.size_ - 1) : IsLive(heap', V.buffer_, i)]_vars

\* C20: whatever operation a live Vector is asked for, and whichever of its
\* steps throws, every destruction it performs hits a slot inside its buffer
\* that holds a live element: the operation's count of destructions applied
\* to anything else (ub) stays 0.
C20_DestroysOnlyLiveElements ==
    \A id \in VecIds :
        LET V == vec[id]
            M == Machine
        IN (V.live /\ ~crashed) =>
              /\ DtorOp(M, V).m.ub = 0
              /\ V.size_ > 0 => PopBackOp(M, V).m.ub = 0
              /\ \A n \in 0..MaxCap : \A f \in 0..ResizeSteps(V, n) :
                    (CanFail(f) /\ (n > V.capacity_ => HasFree(heap))) =>
                       ResizeOp(M, V, n, f).m.ub = 0
              /\ \A n \in 0..MaxCap : \A f \in 0..ReserveSteps(V, n) :
                    (CanFail(f) /\ (n > V.capacity_ => HasFree(heap))) =>
                       ReserveOp(M, V, n, f).m.ub = 0
              /\ \A p \in 0..(V.size_ - 1) : \A f \in 0..EraseSteps(V, p) :
                    CanFail(f) => EraseOp(M, V, p, f).m.ub = 0
              /\ \A p \in 0..V.size_, v \in 1..MaxVal :
                    \A f \in 0..EmplaceSteps(V, p) :
                       (CanFail(f) /\ (V.size_ = V.capacity_ => HasFree(heap))) =>
                          EmplaceOp(M, V, p, v, f).m.ub = 0

====
